---- MODULE Spec2Model ----
(***************************************************************************)
(* Model of the nvtrc capture codec (src/src/nv/NvTraceFormat.h) and of    *)
(* the gpuvis adapter built on it (src/src/gpuvis-nvtrc.cpp).              *)
(*                                                                         *)
(* Memory and files are modelled at byte level: a struct is the sequence   *)
(* of its sizeof(T) bytes (both structs are free of padding), a file is    *)
(* the sequence of its bytes, integers are little-endian two's complement. *)
(* Specification Spec runs WriteFileData / read_nvtrc_file over bounded    *)
(* captures and files; specification SpecConv runs the timestamp converter *)
(* over bounded sync points.                                               *)
(***************************************************************************)
EXTENDS Integers, Sequences, FiniteSets, TLC

VARIABLES
    pc,            \* position of the running program
    capture,       \* the FileData handed to WriteFileData: [given, data]
    file,          \* the file on disk: [exists, bytes]
    ifs,           \* the std::ifstream of ReadFileData: [good, pos]
    fileData,      \* the caller's FileData filled by ReadFileData
    devIndex,      \* loop position of ReadFileData / adapt_events (device)
    recIndex,      \* loop position of adapt_events (record)
    last,          \* the latest ReadVector call: where it started, what it read
    read_success,  \* the value ReadFileData returned
    trace_info,    \* the host's trace_info_t fields adapt_trace_info sets
    events,        \* the trace_event_t values passed to the callback, in order
    sync,          \* the four sync timestamps given to CreateTimestampConverter
    conv,          \* the TimestampConverter
    srcTimestamp,  \* the argument of TimestampConverter::operator()
    dstTimestamp   \* its result

fileVars == <<pc, capture, file, ifs, fileData, devIndex, recIndex, last,
              read_success, trace_info, events>>
convVars == <<sync, conv, srcTimestamp, dstTimestamp>>
vars == <<pc, capture, file, ifs, fileData, devIndex, recIndex, last,
          read_success, trace_info, events, sync, conv, srcTimestamp,
          dstTimestamp>>

(***************************************************************************)
(* Bounds of the model.                                                    *)
(***************************************************************************)
MaxDevices == 2
MaxRecords == 2
MaxSrcTime == 11
MaxDstTime == 15

(***************************************************************************)
(* Sizes of the on-disk structs.                                           *)
(***************************************************************************)
SizeofFileHeader == 8
SizeofArrayHeader == 8
SizeofDeviceDesc == 288
SizeofRecordGpuCtxSw == 24

Min(a, b) == IF a < b THEN a ELSE b
Max(a, b) == IF a < b THEN b ELSE a
Abs(a) == IF a < 0 THEN -a ELSE a

Zeros(n) == [i \in 1..n |-> 0]

(***************************************************************************)
(* Little-endian two's complement encoding and decoding.                   *)
(***************************************************************************)
RECURSIVE LEBytes(_, _)
LEBytes(n, w) ==
    IF w = 0 THEN <<>> ELSE <<n % 256>> \o LEBytes(n \div 256, w - 1)

Complement(bs) == [i \in 1..Len(bs) |-> 255 - bs[i]]

LE(n, w) == IF n >= 0 THEN LEBytes(n, w) ELSE Complement(LEBytes(-n - 1, w))

RECURSIVE UVal(_)
UVal(bs) == IF bs = <<>> THEN 0 ELSE bs[1] + 256 * UVal(Tail(bs))

SVal(bs) ==
    IF bs[Len(bs)] >= 128 THEN -UVal(Complement(bs)) - 1 ELSE UVal(bs)

RECURSIVE Flatten(_)
Flatten(ss) == IF ss = <<>> THEN <<>> ELSE Head(ss) \o Flatten(Tail(ss))

(***************************************************************************)
(* static const std::array<char, 8> nvtrc01Magic{"nvtrc01"}: the seven     *)
(* characters and the zero that fills the array.                           *)
(***************************************************************************)
nvtrc01Magic == <<110, 118, 116, 114, 99, 48, 49, 0>>

(***************************************************************************)
(* Fields of the structs, read from their bytes.                           *)
(***************************************************************************)
DescCpuTimestampStart(d) == SVal(SubSeq(d, 257, 264))
DescGpuTimestampStart(d) == SVal(SubSeq(d, 265, 272))
DescCpuTimestampEnd(d) == SVal(SubSeq(d, 273, 280))
DescGpuTimestampEnd(d) == SVal(SubSeq(d, 281, 288))

RecordCategory(r) == UVal(SubSeq(r, 1, 2))
RecordType(r) == UVal(SubSeq(r, 3, 4))
RecordProcessId(r) == UVal(SubSeq(r, 5, 8))
RecordTimestamp(r) == SVal(SubSeq(r, 9, 16))

(***************************************************************************)
(* std::vector<T>.  After resize(size) and the reads into its storage, a   *)
(* vector is its size and its leading elements; the elements after them    *)
(* are value-initialised, all bytes zero.  The representation is kept      *)
(* canonical by dropping trailing all-zero elements from elems.            *)
(***************************************************************************)
RECURSIVE StripZeros(_)
StripZeros(es) ==
    IF es = <<>> THEN <<>>
    ELSE IF \A i \in 1..Len(es[Len(es)]) : es[Len(es)][i] = 0
         THEN StripZeros(SubSeq(es, 1, Len(es) - 1))
         ELSE es

Vector(n, es) == [size |-> n, elems |-> StripZeros(es)]

EmptyVector == [size |-> 0, elems |-> <<>>]

At(v, k, native) == IF k <= Len(v.elems) THEN v.elems[k] ELSE Zeros(native)

Elements(v, native) == [k \in 1..v.size |-> At(v, k, native)]

EmptyFileData == [deviceDescs |-> EmptyVector, perDeviceData |-> <<>>]

(***************************************************************************)
(* std::istream::read(p, n): on a stream that is not good it extracts      *)
(* nothing; otherwise it extracts min(n, bytes left) bytes and, when that  *)
(* is fewer than n, sets eofbit and failbit.                               *)
(***************************************************************************)
StreamRead(bytes, s, n) ==
    IF ~s.good THEN [data |-> <<>>, stream |-> s]
    ELSE LET k == Min(n, Len(bytes) - s.pos)
         IN  [data |-> SubSeq(bytes, s.pos + 1, s.pos + k),
              stream |-> [good |-> (k = n), pos |-> s.pos + k]]

(***************************************************************************)
(* The bytes read into a vector's storage, cut into elements of native     *)
(* bytes; the element a short read stopped in keeps zeros in its tail.     *)
(***************************************************************************)
Chunks(data, native) ==
    [k \in 1..((Len(data) + native - 1) \div native) |->
        LET piece == SubSeq(data, (k - 1) * native + 1,
                            Min(k * native, Len(data)))
        IN  piece \o Zeros(native - Len(piece))]

(***************************************************************************)
(* ReadVector, branch elementSize == sizeof(T): one read of                *)
(* count * elementSize bytes into the storage.                             *)
(***************************************************************************)
ReadBulk(bytes, s, count, elementSize) ==
    LET r == StreamRead(bytes, s, count * elementSize)
    IN  [elems |-> Chunks(r.data, elementSize), stream |-> r.stream]

(***************************************************************************)
(* ReadVector, branch elementSize > sizeof(T): for each element in turn,   *)
(* one read of sizeof(T) bytes.  Nothing is skipped between two reads.     *)
(* Once a read failed, the reads of the remaining elements extract nothing.*)
(***************************************************************************)
RECURSIVE ReadEach(_, _, _, _, _)
ReadEach(bytes, s, native, todo, acc) ==
    IF todo = 0 \/ ~s.good THEN [elems |-> acc, stream |-> s]
    ELSE LET r == StreamRead(bytes, s, native)
         IN  ReadEach(bytes, r.stream, native, todo - 1,
                      acc \o Chunks(r.data, native))

(***************************************************************************)
(* ReadVector<T>.  ret is "true", "false", or "throw" when                 *)
(* buffer.resize(header.count) is given a negative count: converted to     *)
(* size_t it exceeds max_size() and resize throws std::length_error.       *)
(* The buffer is resized before the element size is looked at.             *)
(* The int32_t elementSize is compared with the size_t sizeof(T) after     *)
(* conversion to size_t, so a negative elementSize counts as greater.      *)
(* emptySubscript: the branch elementSize == sizeof(T) evaluates           *)
(* &buffer[0]; when the buffer is empty, buffer[0] is undefined behaviour. *)
(* A build with unchecked subscripts gets a pointer that the read of zero  *)
(* bytes never uses, a build with checked subscripts aborts.               *)
(***************************************************************************)
ReadVector(bytes, s, native) ==
    LET h == StreamRead(bytes, s, SizeofArrayHeader)
    IN  IF ~h.stream.good
        THEN [ret |-> "false", vec |-> EmptyVector, stream |-> h.stream,
              header |-> FALSE, count |-> 0, elementSize |-> 0,
              emptySubscript |-> FALSE]
        ELSE
        LET count == SVal(SubSeq(h.data, 1, 4))
            elementSize == SVal(SubSeq(h.data, 5, 8))
        IN  IF count < 0
            THEN [ret |-> "throw", vec |-> EmptyVector, stream |-> h.stream,
                  header |-> TRUE, count |-> count,
                  elementSize |-> elementSize,
                  emptySubscript |-> (elementSize = native /\ count = 0)]
            ELSE IF elementSize = native
            THEN LET r == ReadBulk(bytes, h.stream, count, elementSize)
                 IN  [ret |-> IF r.stream.good THEN "true" ELSE "false",
                      vec |-> Vector(count, r.elems), stream |-> r.stream,
                      header |-> TRUE, count |-> count,
                      elementSize |-> elementSize,
                      emptySubscript |-> (elementSize = native /\ count = 0)]
            ELSE IF elementSize > native \/ elementSize < 0
            THEN LET r == ReadEach(bytes, h.stream, native, count, <<>>)
                 IN  [ret |-> IF r.stream.good THEN "true" ELSE "false",
                      vec |-> Vector(count, r.elems), stream |-> r.stream,
                      header |-> TRUE, count |-> count,
                      elementSize |-> elementSize,
                      emptySubscript |-> (elementSize = native /\ count = 0)]
            ELSE [ret |-> "false", vec |-> Vector(count, <<>>),
                  stream |-> h.stream,
                  header |-> TRUE, count |-> count,
                  elementSize |-> elementSize,
                  emptySubscript |-> (elementSize = native /\ count = 0)]

\* Faulty variant of WriteVector: the two header fields in the wrong order.
WriteVector_HeaderSwapped(v, native) ==
    LE(native, 4) \o LE(v.size, 4) \o Flatten(Elements(v, native))

(***************************************************************************)
(* WriteVector<T>: the header (size, sizeof(T)), then the storage.  It     *)
(* evaluates &buffer[0] too, undefined when the buffer is empty.           *)
(***************************************************************************)
WriteVector(v, native) ==
    LE(v.size, 4) \o LE(native, 4) \o Flatten(Elements(v, native))

(***************************************************************************)
(* The bytes WriteFileData puts into the file: the header, the device      *)
(* array, then one record array per element of perDeviceData.              *)
(***************************************************************************)
WrittenBytes(fd) ==
    nvtrc01Magic
    \o WriteVector(fd.deviceDescs, SizeofDeviceDesc)
    \o Flatten([i \in 1..Len(fd.perDeviceData) |->
                   WriteVector(fd.perDeviceData[i], SizeofRecordGpuCtxSw)])

(***************************************************************************)
(* Inputs.  Device i of a capture and record k of device i are fixed       *)
(* values that differ from one another in every field the adapter reads.   *)
(***************************************************************************)
DeviceName(i) == <<71, 80, 85, 48 + i>> \o Zeros(235)

DescOf(i) ==
    [j \in 1..16 |-> 16 * i + j]          \* uuid
    \o DeviceName(i)                      \* name
    \o <<0>>                              \* gpuCtxSwTraceError
    \o LE(5000, 8)                        \* cpuTimestampStart
    \o LE(1000 * i, 8)                    \* gpuTimestampStart
    \o LE(5000 + 500 * i, 8)              \* cpuTimestampEnd
    \o LE(1000 * i + 1000, 8)             \* gpuTimestampEnd

RecOf(i, k, badType) ==
    LE(1, 2)                                              \* category
    \o LE(IF badType /\ k = 1 THEN 7 ELSE 2 - (k % 2), 2) \* type
    \o LE(100 * i + k, 4)                                 \* processId
    \o LE(1000 * i + 250 * k + 1, 8)                      \* timestamp
    \o LE(4096 + i, 8)                                    \* contextHandle

RecCounts(n, lo) == [1..n -> lo..MaxRecords]

(***************************************************************************)
(* The captures handed to WriteFileData: n devices, lists devices with a   *)
(* record list (the code does not require lists = n).                      *)
(***************************************************************************)
CaptureOf(n, lists, counts, badType) ==
    [deviceDescs |-> Vector(n, [i \in 1..n |-> DescOf(i)]),
     perDeviceData |->
        [i \in 1..lists |->
            Vector(counts[i], [k \in 1..counts[i] |-> RecOf(i, k, badType)])]]

Captures ==
    { CaptureOf(n, lists, counts, badType) :
        n \in 0..MaxDevices, lists \in 0..MaxDevices,
        counts \in RecCounts(MaxDevices, 0), badType \in BOOLEAN }

(***************************************************************************)
(* The files given to ReadFileData.  A file is laid out like a written     *)
(* capture, with: the element size of the device array and of the record   *)
(* arrays one smaller (older format, last byte of each record missing),    *)
(* equal, or one larger (newer format, one byte pad appended to each       *)
(* record), or -1 (a corrupt header, no record bytes); a count of -1 in a  *)
(* header; one byte of the magic changed; the file cut short.              *)
(***************************************************************************)
OnDisk(elem, delta, pad) ==
    IF delta > 0 THEN elem \o <<pad>>
    ELSE IF delta < 0 THEN SubSeq(elem, 1, Max(0, Len(elem) + delta))
    ELSE elem

ArrayOnDisk(count, elems, native, delta, pad) ==
    LE(count, 4) \o LE(native + delta, 4)
    \o Flatten([k \in 1..Len(elems) |-> OnDisk(elems[k], delta, pad)])

\* dev, rec: element size of the device array and of the record arrays,
\* less sizeof(T); first: only the first record array has the size rec
Formats ==
    { f \in [dev : {-1 - SizeofDeviceDesc, -1, 0, 1},
             rec : {-1 - SizeofRecordGpuCtxSw, -1, 0, 1},
             pad : {0, 238}, first : BOOLEAN] :
        /\ (f.dev # 0 /\ f.rec # 0) => (f.dev = 1 /\ f.rec = 1)
        /\ (f.pad # 0) => (f.dev = 1 \/ f.rec = 1)
        /\ f.first => f.rec # 0 }

Damages ==
    { [kind |-> "none", at |-> 0] }
    \cup { [kind |-> "magic", at |-> k] : k \in 1..8 }
    \cup { [kind |-> "cut", at |-> k] : k \in {4, 12, 116} }
    \cup { [kind |-> "cutEnd", at |-> k] : k \in {1, 13} }

Damaged(bytes, damage) ==
    IF damage.kind = "magic"
    THEN [bytes EXCEPT ![damage.at] = (bytes[damage.at] + 1) % 256]
    ELSE IF damage.kind = "cut"
    THEN SubSeq(bytes, 1, Min(damage.at, Len(bytes)))
    ELSE IF damage.kind = "cutEnd"
    THEN SubSeq(bytes, 1, Max(0, Len(bytes) - damage.at))
    ELSE bytes

FileOf(devCount, counts, fmt, badType, damage) ==
    LET n == Max(devCount, 0)
        body ==
            nvtrc01Magic
            \o ArrayOnDisk(devCount, [i \in 1..n |-> DescOf(i)],
                           SizeofDeviceDesc, fmt.dev, fmt.pad)
            \o Flatten([i \in 1..n |->
                   ArrayOnDisk(counts[i],
                       [k \in 1..Max(counts[i], 0) |-> RecOf(i, k, badType)],
                       SizeofRecordGpuCtxSw,
                       IF fmt.first /\ i > 1 THEN 0 ELSE fmt.rec,
                       fmt.pad)])
    IN  Damaged(body, damage)

Shapes ==
    { s \in [devCount : -1..MaxDevices, counts : RecCounts(MaxDevices, -1),
             fmt : Formats, badType : BOOLEAN, damage : Damages] :
        s.damage.kind = "magic" =>
            (s.badType /\ s.fmt.dev = 0 /\ s.fmt.rec = 0) }

Files ==
    { FileOf(s.devCount, s.counts, s.fmt, s.badType, s.damage) : s \in Shapes }

\* Faulty variant of MagicMatches: the magic compared as a C string, which
\* stops at the seventh character.
MagicMatches_AsCString(magic) == SubSeq(magic, 1, 7) = SubSeq(nvtrc01Magic, 1, 7)

\* WriteFileData calls WriteVector on an empty vector
WritesEmptyVector(fd) ==
    \/ fd.deviceDescs.size = 0
    \/ \E i \in 1..Len(fd.perDeviceData) : fd.perDeviceData[i].size = 0

(***************************************************************************)
(* header.magic != nvtrc01Magic compares the two std::array<char, 8>,      *)
(* all eight bytes.                                                        *)
(***************************************************************************)
MagicMatches(magic) == magic = nvtrc01Magic

\* Faulty variant of ResizePerDeviceData: reserve() in place of resize(),
\* which leaves the size of perDeviceData at zero.
ResizePerDeviceData_Reserve(fd) == fd

(***************************************************************************)
(* fileData.perDeviceData.resize(fileData.deviceDescs.size()) on the       *)
(* FileData that ReadFileData reset on entry.                              *)
(***************************************************************************)
ResizePerDeviceData(fd) ==
    [fd EXCEPT !.perDeviceData =
        [i \in 1..fd.deviceDescs.size |-> EmptyVector]]

NoCall == [index |-> -1, start |-> 0, native |-> 0, ret |-> "none",
           header |-> FALSE, count |-> 0, elementSize |-> 0]

Call(index, start, native, r) ==
    [index |-> index, start |-> start, native |-> native, ret |-> r.ret,
     header |-> r.header, count |-> r.count, elementSize |-> r.elementSize]

NoTraceInfo == [uname |-> <<>>, timestamp_in_us |-> FALSE, cpus |-> -1,
                min_file_ts |-> 0]

(***************************************************************************)
(* WriteFileData(outputFile, capture).  The std::ofstream may fail to      *)
(* open, and then nothing is written.  With an empty vector to write, a    *)
(* build with checked subscripts aborts in WriteVector, the stream's       *)
(* buffer never flushed.                                                   *)
(***************************************************************************)
WriteFileData ==
    /\ pc = "write"
    /\ \/ \E opened \in BOOLEAN :
             IF opened
             THEN /\ file' = [exists |-> TRUE,
                              bytes |-> WrittenBytes(capture.data)]
                  /\ pc' = "call"
             ELSE /\ file' = file
                  /\ pc' = "done"
       \/ /\ WritesEmptyVector(capture.data)
          /\ file' = [exists |-> TRUE, bytes |-> <<>>]
          /\ pc' = "write_aborted"
    /\ UNCHANGED <<capture, ifs, fileData, devIndex, recIndex, last,
                   read_success, trace_info, events>>
    /\ UNCHANGED convVars

(***************************************************************************)
(* ReadFileData, lines 150-153: reset the caller's FileData, open the      *)
(* stream.                                                                 *)
(***************************************************************************)
ReadFileData_Open ==
    /\ pc = "call"
    /\ fileData' = EmptyFileData
    /\ IF file.exists
       THEN /\ ifs' = [good |-> TRUE, pos |-> 0]
            /\ pc' = "header"
            /\ UNCHANGED read_success
       ELSE /\ ifs' = [good |-> FALSE, pos |-> 0]
            /\ read_success' = FALSE
            /\ pc' = "returned"
    /\ UNCHANGED <<capture, file, devIndex, recIndex, last, trace_info,
                   events>>
    /\ UNCHANGED convVars

(***************************************************************************)
(* ReadFileData, lines 155-159: read the FileHeader, compare the magic.    *)
(***************************************************************************)
ReadFileData_Header ==
    /\ pc = "header"
    /\ LET r == StreamRead(file.bytes, ifs, SizeofFileHeader)
       IN  /\ ifs' = r.stream
           /\ IF r.stream.good /\ MagicMatches(r.data)
              THEN /\ pc' = "descs"
                   /\ UNCHANGED read_success
              ELSE /\ read_success' = FALSE
                   /\ pc' = "returned"
    /\ UNCHANGED <<capture, file, fileData, devIndex, recIndex, last,
                   trace_info, events>>
    /\ UNCHANGED convVars

(***************************************************************************)
(* ReadFileData, lines 161-164: ReadVector into fileData.deviceDescs,      *)
(* then resize perDeviceData.                                              *)
(***************************************************************************)
ReadFileData_Descs ==
    /\ pc = "descs"
    /\ LET r == ReadVector(file.bytes, ifs, SizeofDeviceDesc)
           fd == [fileData EXCEPT !.deviceDescs = r.vec]
       IN  /\ ifs' = r.stream
           /\ last' = Call(0, ifs.pos, SizeofDeviceDesc, r)
           /\ \/ IF r.ret = "true"
                 THEN /\ fileData' = ResizePerDeviceData(fd)
                      /\ devIndex' = 1
                      /\ pc' = "records"
                      /\ UNCHANGED read_success
                 ELSE IF r.ret = "false"
                 THEN /\ fileData' = fd
                      /\ read_success' = FALSE
                      /\ pc' = "returned"
                      /\ UNCHANGED devIndex
                 ELSE /\ fileData' = fd
                      /\ pc' = "threw"
                      /\ UNCHANGED <<devIndex, read_success>>
              \/ /\ r.emptySubscript
                 /\ fileData' = fd
                 /\ pc' = "aborted"
                 /\ UNCHANGED <<devIndex, read_success>>
    /\ UNCHANGED <<capture, file, recIndex, trace_info, events>>
    /\ UNCHANGED convVars

(***************************************************************************)
(* ReadFileData, lines 165-171: one turn of the loop over perDeviceData,   *)
(* or its end and return true.                                             *)
(***************************************************************************)
ReadFileData_Records ==
    /\ pc = "records"
    /\ IF devIndex > Len(fileData.perDeviceData)
       THEN /\ read_success' = TRUE
            /\ pc' = "returned"
            /\ UNCHANGED <<ifs, fileData, devIndex, last>>
       ELSE LET r == ReadVector(file.bytes, ifs, SizeofRecordGpuCtxSw)
            IN  /\ ifs' = r.stream
                /\ last' = Call(devIndex, ifs.pos, SizeofRecordGpuCtxSw, r)
                /\ fileData' =
                      [fileData EXCEPT !.perDeviceData[devIndex] = r.vec]
                /\ \/ IF r.ret = "true"
                      THEN /\ devIndex' = devIndex + 1
                           /\ UNCHANGED <<pc, read_success>>
                      ELSE IF r.ret = "false"
                      THEN /\ read_success' = FALSE
                           /\ pc' = "returned"
                           /\ UNCHANGED devIndex
                      ELSE /\ pc' = "threw"
                           /\ UNCHANGED <<devIndex, read_success>>
                   \/ /\ r.emptySubscript
                      /\ pc' = "aborted"
                      /\ UNCHANGED <<devIndex, read_success>>
    /\ UNCHANGED <<capture, file, recIndex, trace_info, events>>
    /\ UNCHANGED convVars

(***************************************************************************)
(* IEEE-754 binary64 arithmetic of the converter.  Every double the        *)
(* converter holds is the quotient of two integers rounded to nearest, so  *)
(* a double is kept as the reduced fraction num/den (den > 0) that was     *)
(* rounded; an integer converted to double is exact.                       *)
(***************************************************************************)
RECURSIVE GCD(_, _)
GCD(a, b) == IF b = 0 THEN a ELSE GCD(b, a % b)

Sign(a) == IF a < 0 THEN -1 ELSE IF a > 0 THEN 1 ELSE 0

\* static_cast<double>(num) / static_cast<double>(den), den # 0
DoubleQuotient(num, den) ==
    LET g == GCD(Abs(num), Abs(den))
    IN  [num |-> Sign(num) * Sign(den) * (Abs(num) \div g),
         den |-> Abs(den) \div g]

DoubleZero == [num |-> 0, den |-> 1]

\* the largest e with 2^e <= a/b, for a, b > 0
RECURSIVE Doublings(_, _)
Doublings(big, small) ==
    IF 2 * small <= big THEN 1 + Doublings(big, 2 * small) ELSE 0

RECURSIVE Halvings(_, _)
Halvings(a, b) == IF a >= b THEN 0 ELSE 1 + Halvings(2 * a, b)

Exponent(a, b) == IF a >= b THEN Doublings(a, b) ELSE -Halvings(a, b)

RECURSIVE PowMod2(_, _)
PowMod2(s, b) == IF s = 0 THEN 1 % b ELSE (2 * PowMod2(s - 1, b)) % b

(***************************************************************************)
(* static_cast<int64_t>(scale * static_cast<double>(srcDelta)): the        *)
(* product of the double nearest to num/den and of x, rounded to nearest   *)
(* double, truncated toward zero.  With A = |num|, b = den, X = |x|:       *)
(*  - when b does not divide A*X the exact value A*X/b is at least 1/b     *)
(*    away from an integer, far more than both roundings move it, and the  *)
(*    result is A*X/b truncated toward zero;                               *)
(*  - when A*X/b is an integer N, the double scale = m * 2^-s (m of 53     *)
(*    bits) differs from A/b by r/(b * 2^s), r = A*2^s - m*b.  If the      *)
(*    quotient was rounded up or is exact (r <= 0) the product rounds to   *)
(*    N or above and truncates to N.  If it was rounded down (r > 0) the   *)
(*    product is N - d*2^-s with d = X*r/b; it rounds to N when d is at    *)
(*    most half the gap between N and the double below N (ties go to N,    *)
(*    whose mantissa is even), and otherwise to a double below N, which    *)
(*    truncates to N - 1.                                                  *)
(* Exact for |num|, den, |x| below 2^20.                                   *)
(***************************************************************************)
TruncatedProduct(scale, x) ==
    LET A == Abs(scale.num)
        b == scale.den
        X == Abs(x)
        sgn == Sign(scale.num) * Sign(x)
    IN  IF A = 0 \/ X = 0 THEN 0
        ELSE IF (A * X) % b # 0 THEN sgn * ((A * X) \div b)
        ELSE
        LET N == (A * X) \div b
            e == Exponent(A, b)
            s == 52 - e
            r0 == ((A % b) * PowMod2(s, b)) % b
            d == (X * r0) \div b
            k == Exponent(N, 1)
            gap == 2 ^ (k - e)      \* gap above N, in units of 2^-s
            isPow2 == (2 ^ k = N)   \* the gap below a power of two is half
            below == IF isPow2 THEN 4 * d > gap ELSE 2 * d > gap
        IN  IF r0 = 0 \/ 2 * r0 > b THEN sgn * N
            ELSE IF below THEN sgn * (N - 1)
            ELSE sgn * N

(***************************************************************************)
(* TimestampConverter::operator()                                          *)
(***************************************************************************)
TimestampConverterApply(c, srcTs) ==
    LET srcDelta == srcTs - c.srcAtSyncPoint
        dstDelta == TruncatedProduct(c.scale, srcDelta)
    IN  dstDelta + c.dstAtSyncPoint

\* Faulty variant of CreateTimestampConverter: anchored at the start of the
\* capture.
CreateTimestampConverter_AnchoredAtStart(srcStart, srcEnd, dstStart, dstEnd) ==
    LET dstDelta == dstEnd - dstStart
        srcDelta == srcEnd - srcStart
        scale == IF srcDelta = 0 THEN DoubleZero
                 ELSE DoubleQuotient(dstDelta, srcDelta)
    IN  [dstAtSyncPoint |-> dstStart, srcAtSyncPoint |-> srcStart,
         scale |-> scale]

(***************************************************************************)
(* CreateTimestampConverter(srcStart, srcEnd, dstStart, dstEnd)            *)
(***************************************************************************)
CreateTimestampConverter(srcStart, srcEnd, dstStart, dstEnd) ==
    LET dstDelta == dstEnd - dstStart
        srcDelta == srcEnd - srcStart
        scale == IF srcDelta = 0 THEN DoubleZero
                 ELSE DoubleQuotient(dstDelta, srcDelta)
    IN  [dstAtSyncPoint |-> dstEnd, srcAtSyncPoint |-> srcEnd,
         scale |-> scale]

\* CreateTimestampConverter(DeviceDesc const&): source GPU, destination CPU
CreateTimestampConverterOfDesc(desc) ==
    CreateTimestampConverter(DescGpuTimestampStart(desc),
                             DescGpuTimestampEnd(desc),
                             DescCpuTimestampStart(desc),
                             DescCpuTimestampEnd(desc))

(***************************************************************************)
(* The adapter, gpuvis-nvtrc.cpp.                                          *)
(***************************************************************************)
rdtsc_to_us(rdtsc) == rdtsc

namehack == <<"Invalid", "ContextSwitchedIn", "ContextSwitchedOut">>

\* std::string(const char*): the bytes before the first zero
RECURSIVE CString(_)
CString(bs) ==
    IF bs = <<>> \/ bs[1] = 0 THEN <<>> ELSE <<bs[1]>> \o CString(Tail(bs))

DescName(d) == CString(SubSeq(d, 17, Len(d)))

RECURSIVE Minimum(_)
Minimum(S) ==
    LET x == CHOOSE y \in S : TRUE
    IN  IF S = {x} THEN x ELSE Min(x, Minimum(S \ {x}))

(***************************************************************************)
(* adapt_trace_info: uname is the list of "nvgpu(<name>)" joined by "&",   *)
(* kept as the list of the names; min_file_ts is the least                 *)
(* cpuTimestampStart, INT64_MAX when there is no device.                   *)
(***************************************************************************)
adapt_trace_info(fd) ==
    LET descs == Elements(fd.deviceDescs, SizeofDeviceDesc)
    IN  [uname |-> [i \in 1..Len(descs) |-> DescName(descs[i])],
         timestamp_in_us |-> TRUE,
         cpus |-> 0,
         min_file_ts |->
            IF descs = <<>> THEN "INT64_MAX"
            ELSE rdtsc_to_us(Minimum({ DescCpuTimestampStart(descs[i]) :
                                        i \in 1..Len(descs) }))]

(***************************************************************************)
(* The trace_event_t adapt_events builds for one record.                   *)
(***************************************************************************)
AdaptedEvent(record, name) ==
    [pid |-> RecordProcessId(record),
     id |-> "INVALID_ID",
     cpu |-> 0,
     ts |-> rdtsc_to_us(RecordTimestamp(record)),
     flags |-> "TRACE_FLAG_AUTOGEN_COLOR",
     seqno |-> 0,
     id_start |-> "INVALID_ID",
     graph_row_id |-> 0,
     crtc |-> -1,
     color |-> 0,
     duration |-> "INT64_MAX",
     comm |-> "(event_comm)",
     system |-> "nvcontext",
     name |-> name,
     user_comm |-> "(event_usercomm)"]

(***************************************************************************)
(* read_nvtrc_file, lines 123-131: after a successful ReadFileData,        *)
(* adapt_trace_info.                                                       *)
(***************************************************************************)
AdaptTraceInfo ==
    /\ pc = "returned"
    /\ read_success
    /\ trace_info' = adapt_trace_info(fileData)
    /\ devIndex' = 1
    /\ recIndex' = 1
    /\ pc' = "events"
    /\ UNCHANGED <<capture, file, ifs, fileData, last, read_success, events>>
    /\ UNCHANGED convVars

(***************************************************************************)
(* read_nvtrc_file, lines 123 and 135: ReadFileData failed, return false.  *)
(***************************************************************************)
ReturnFailure ==
    /\ pc = "returned"
    /\ ~read_success
    /\ pc' = "done"
    /\ UNCHANGED <<capture, file, ifs, fileData, devIndex, recIndex, last,
                   read_success, trace_info, events>>
    /\ UNCHANGED convVars

(***************************************************************************)
(* adapt_events: one turn of the loops over deviceDescs and over           *)
(* perDeviceData[i], or the end of the outer loop and the return of        *)
(* read_nvtrc_file.  namehack has three entries; indexing it with          *)
(* int(record.type) > 2 reads past the array, which is undefined: the      *)
(* program crashes or goes on with a garbage name.                         *)
(***************************************************************************)
AdaptEvents ==
    /\ pc = "events"
    /\ IF devIndex > fileData.deviceDescs.size
       THEN /\ pc' = "done"
            /\ UNCHANGED <<devIndex, recIndex, events>>
       ELSE IF recIndex > fileData.perDeviceData[devIndex].size
       THEN /\ devIndex' = devIndex + 1
            /\ recIndex' = 1
            /\ UNCHANGED <<pc, events>>
       ELSE LET record == At(fileData.perDeviceData[devIndex], recIndex,
                             SizeofRecordGpuCtxSw)
                index == RecordType(record)
            IN  IF index < Len(namehack)
                THEN /\ events' = Append(events,
                            AdaptedEvent(record, namehack[index + 1]))
                     /\ recIndex' = recIndex + 1
                     /\ UNCHANGED <<pc, devIndex>>
                ELSE \/ /\ pc' = "crashed"
                        /\ UNCHANGED <<devIndex, recIndex, events>>
                     \/ /\ events' = Append(events,
                               AdaptedEvent(record, "<garbage>"))
                        /\ recIndex' = recIndex + 1
                        /\ UNCHANGED <<pc, devIndex>>
    /\ UNCHANGED <<capture, file, ifs, fileData, last, read_success,
                   trace_info>>
    /\ UNCHANGED convVars

(***************************************************************************)
(* Specification Spec: a capture is written and read back, or a given      *)
(* file (or no file) is read, by read_nvtrc_file.                          *)
(***************************************************************************)
NoFile == [exists |-> FALSE, bytes |-> <<>>]

NoCapture == [given |-> FALSE, data |-> EmptyFileData]

NoConv == [dstAtSyncPoint |-> 0, srcAtSyncPoint |-> 0, scale |-> DoubleZero]

NoSync == [srcStart |-> 0, srcEnd |-> 0, dstStart |-> 0, dstEnd |-> 0]

Init ==
    /\ \/ /\ pc = "write"
          /\ capture \in { [given |-> TRUE, data |-> c] : c \in Captures }
          /\ file = NoFile
       \/ /\ pc = "call"
          /\ capture = NoCapture
          /\ file \in { [exists |-> TRUE, bytes |-> b] : b \in Files }
                      \cup {NoFile}
    /\ ifs = [good |-> FALSE, pos |-> 0]
    /\ fileData = EmptyFileData
    /\ devIndex = 0
    /\ recIndex = 0
    /\ last = NoCall
    /\ read_success = FALSE
    /\ trace_info = NoTraceInfo
    /\ events = <<>>
    /\ sync = NoSync
    /\ conv = NoConv
    /\ srcTimestamp = 0
    /\ dstTimestamp = 0

Next ==
    \/ WriteFileData
    \/ ReadFileData_Open
    \/ ReadFileData_Header
    \/ ReadFileData_Descs
    \/ ReadFileData_Records
    \/ AdaptTraceInfo
    \/ ReturnFailure
    \/ AdaptEvents

Spec == Init /\ [][Next]_vars

(***************************************************************************)
(* Specification SpecConv: a converter is created from four sync           *)
(* timestamps and applied to a source timestamp.                           *)
(***************************************************************************)
Syncs ==
    [srcStart : 0..MaxSrcTime, srcEnd : 0..MaxSrcTime,
     dstStart : 0..MaxDstTime, dstEnd : 0..MaxDstTime]
    \cup { [srcStart |-> 1000, srcEnd |-> 2000,
            dstStart |-> 500000, dstEnd |-> 500500],
           [srcStart |-> 1000, srcEnd |-> 2000,
            dstStart |-> 500000, dstEnd |-> 500750] }

SrcTimestamps ==
    (-1..(MaxSrcTime + 1)) \cup {999, 1000, 1001, 1500, 1999, 2000, 2002}

CreateConverter ==
    /\ pc = "conv_create"
    /\ conv' = CreateTimestampConverter(sync.srcStart, sync.srcEnd,
                                        sync.dstStart, sync.dstEnd)
    /\ pc' = "conv_apply"
    /\ UNCHANGED <<sync, srcTimestamp, dstTimestamp>>
    /\ UNCHANGED <<capture, file, ifs, fileData, devIndex, recIndex, last,
                   read_success, trace_info, events>>

ApplyConverter ==
    /\ pc = "conv_apply"
    /\ \E x \in SrcTimestamps :
          /\ srcTimestamp' = x
          /\ dstTimestamp' = TimestampConverterApply(conv, x)
    /\ pc' = "conv_done"
    /\ UNCHANGED <<sync, conv>>
    /\ UNCHANGED <<capture, file, ifs, fileData, devIndex, recIndex, last,
                   read_success, trace_info, events>>

InitConv ==
    /\ pc = "conv_create"
    /\ sync \in Syncs
    /\ conv = NoConv
    /\ srcTimestamp = 0
    /\ dstTimestamp = 0
    /\ capture = NoCapture
    /\ file = NoFile
    /\ ifs = [good |-> FALSE, pos |-> 0]
    /\ fileData = EmptyFileData
    /\ devIndex = 0
    /\ recIndex = 0
    /\ last = NoCall
    /\ read_success = FALSE
    /\ trace_info = NoTraceInfo
    /\ events = <<>>

NextConv == CreateConverter \/ ApplyConverter

SpecConv == InitConv /\ [][NextConv]_vars

(***************************************************************************)
(* Properties.                                                             *)
(***************************************************************************)
Returned == pc \in {"returned", "events", "done", "crashed"}

\* the vector the latest ReadVector call filled
LastArray ==
    IF last.index = 0 THEN fileData.deviceDescs
    ELSE fileData.perDeviceData[last.index]

\* the latest ReadVector call read a header whose array is whole in the file
LastArrayInFile ==
    /\ last.header
    /\ last.count >= 0
    /\ last.elementSize > 0
    /\ last.count <=
          (Len(file.bytes) - last.start - SizeofArrayHeader)
              \div last.elementSize

\* C1: forward compatibility of ReadVector.  When the header's elementSize
\* is greater than sizeof(T), record k of the vector is the first sizeof(T)
\* bytes of on-disk record k, and the stream has advanced by elementSize
\* per record.
C1_NewerRecordsReadAtStride ==
    (LastArrayInFile /\ last.elementSize > last.native) =>
        LET base == last.start + SizeofArrayHeader
        IN  /\ \A k \in 1..last.count :
                  At(LastArray, k, last.native) =
                      SubSeq(file.bytes,
                             base + (k - 1) * last.elementSize + 1,
                             base + (k - 1) * last.elementSize + last.native)
            /\ ifs.pos = base + last.count * last.elementSize

\* C2: decode is all-or-nothing.  Whenever ReadFileData has returned false,
\* the caller's FileData holds no device descriptor and no per-device list.
C2_FailureLeavesNoData ==
    (Returned /\ ~read_success) => fileData = EmptyFileData

\* C3: backward incompatibility.  When a header's elementSize is smaller
\* than sizeof(T), ReadVector fails, reads no byte after the header, and
\* leaves no record in the vector.
C3_OlderFormatLeavesNoRecords ==
    (last.header /\ last.count >= 0 /\ last.elementSize < last.native) =>
        /\ last.ret = "false"
        /\ ifs.pos = last.start + SizeofArrayHeader
        /\ LastArray.size = 0

C5_ListsMatchDescriptors ==
    (Returned /\ read_success) =>
        Len(fileData.perDeviceData) = fileData.deviceDescs.size

C5_Witness ==
    /\ pc = "returned"
    /\ read_success
    /\ ~capture.given
    /\ Len(file.bytes) = SizeofFileHeader + SizeofArrayHeader
    /\ fileData.deviceDescs.size = 0
    /\ fileData.perDeviceData = <<>>

\* the first eight bytes of the file (or all of them when it is shorter)
\* are not the magic
BadMagic ==
    /\ file.exists
    /\ SubSeq(file.bytes, 1, Min(SizeofFileHeader, Len(file.bytes)))
          # nvtrc01Magic

\* C6: magic rejection.  When the first eight bytes of the file differ from
\* the magic, ReadFileData returns false whatever follows, and reads nothing
\* after the eight bytes of the header: no ReadVector call is made.
C6_BadMagicRejected ==
    (BadMagic /\ pc \notin {"write", "write_aborted", "call", "header"}) =>
        /\ pc \in {"returned", "done"}
        /\ ~read_success
        /\ ifs.pos = Min(SizeofFileHeader, Len(file.bytes))
        /\ last = NoCall
        /\ fileData = EmptyFileData
        /\ events = <<>>

C6_Witness ==
    /\ pc = "done"
    /\ BadMagic
    /\ Len(file.bytes) > SizeofFileHeader + SizeofArrayHeader
    /\ SubSeq(file.bytes, 1, 7) = SubSeq(nvtrc01Magic, 1, 7)
    /\ ~read_success
    /\ ifs.pos = SizeofFileHeader

\* the integers nearest to p/q (two of them when p/q is halfway), q > 0
NearestIntegers(p, q) ==
    LET lo == IF p >= 0 THEN p \div q ELSE -((-p + q - 1) \div q)
    IN  IF 2 * (p - lo * q) < q THEN {lo}
        ELSE IF 2 * (p - lo * q) > q THEN {lo + 1}
        ELSE {lo, lo + 1}

\* C7: applying the converter rounds to nearest.  The result for x is
\* round((x - srcAtSyncPoint) * scale) + dstAtSyncPoint.
C7_RoundsToNearest ==
    (pc = "conv_done") =>
        dstTimestamp - conv.dstAtSyncPoint \in
            NearestIntegers((srcTimestamp - conv.srcAtSyncPoint)
                                * conv.scale.num,
                            conv.scale.den)

ConvertedTimestamps(fd) ==
    Flatten([i \in 1..fd.deviceDescs.size |->
        LET c == CreateTimestampConverterOfDesc(
                     At(fd.deviceDescs, i, SizeofDeviceDesc))
            records == Elements(fd.perDeviceData[i], SizeofRecordGpuCtxSw)
        IN  [k \in 1..Len(records) |->
                TimestampConverterApply(c, RecordTimestamp(records[k]))]])

\* C9: adapter event stream.  After a successful decode the callback has
\* been called once per record, in device order then record order, with the
\* record's timestamp converted to CPU time by the converter of its device;
\* after a failed decode it has not been called.
C9_EventsCarryConvertedTimestamps ==
    (pc = "done" /\ file.exists) =>
        IF read_success
        THEN [k \in 1..Len(events) |-> events[k].ts]
                = ConvertedTimestamps(fileData)
        ELSE events = <<>>

\* C10: the label lookup of adapt_events stays in bounds.  The index
\* int(record.type) of every record adapt_events is about to handle is 0,
\* 1 or 2.
C10_LabelIndexInBounds ==
    (/\ pc = "events"
     /\ devIndex <= fileData.deviceDescs.size
     /\ recIndex <= fileData.perDeviceData[devIndex].size) =>
        RecordType(At(fileData.perDeviceData[devIndex], recIndex,
                      SizeofRecordGpuCtxSw)) \in 0..2

====
